---- MODULE Spec2Model ----
(***************************************************************************)
(* A model of rust-x86-mp (src/src/lib.rs): the decoder of the Intel       *)
(* MultiProcessor floating pointer structure, of the MP configuration      *)
(* table header, of the entry stream that follows the header, and of the   *)
(* typed entry accessors.                                                  *)
(*                                                                         *)
(* Four specifications share the variables:                                *)
(*   Spec       the EntryIterator walking an entry stream in memory        *)
(*   SpecFP     MPFloatingPointer::{verify_checksum,verify_signature,      *)
(*              is_valid} applied to floating pointer structures           *)
(*   SpecHdr    MPConfigurationTableHeader::{verify_checksum,              *)
(*              verify_signature,is_valid} applied to headers              *)
(*   SpecEntry  the five MPEntry accessors applied to entries              *)
(***************************************************************************)
EXTENDS Integers, Sequences, FiniteSets

VARIABLES
    fp,             \* the MPFloatingPointer under decode
    hdr,            \* the MPConfigurationTableHeader under decode
    entry,          \* the MPEntry handed to the accessors
    table_location, \* the address the caller passes to iter()
    types,          \* the type byte of each record the firmware laid out
    mem,            \* the bytes of the table after its 44-byte header
    it,             \* the EntryIterator's four fields
    results,        \* history: the outcome of every next() call so far
    reads,          \* history: every address a next() call dereferenced
    ret,            \* the value returned by the last pure call
    pc              \* where the caller is

vars == <<fp, hdr, entry, table_location, types, mem, it, results, reads, ret, pc>>

(***************************************************************************)
(* Bounds of the model.                                                    *)
(***************************************************************************)
\* the longest entry stream the firmware lays out, in records
MaxRecords == 3
\* the largest entry_count a header carries
MaxCount == 4
\* next() calls a caller makes on one iterator
MaxCalls == 6

(***************************************************************************)
(* Bytes and little-endian words.                                          *)
(***************************************************************************)
Byte == 0..255

RECURSIVE SumBytes(_)
\* buf.iter().map(|&b| usize::from(b)).sum::<usize>()
SumBytes(s) == IF s = <<>> THEN 0 ELSE Head(s) + SumBytes(Tail(s))

\* write_u32 in big-endian order: the most significant byte first
LittleEndian_write_u32_BE(buf, at, n) ==
    [i \in 1..Len(buf) |->
        IF i = at + 1 THEN (n \div 16777216) % 256
        ELSE IF i = at + 2 THEN (n \div 65536) % 256
        ELSE IF i = at + 3 THEN (n \div 256) % 256
        ELSE IF i = at + 4 THEN n % 256
        ELSE buf[i]]

\* byteorder's LittleEndian::write_u32(&mut buf[at..], n): the least
\* significant byte first.  buf is 1-indexed here, at is the 0-based offset.
LittleEndian_write_u32(buf, at, n) ==
    [i \in 1..Len(buf) |->
        IF i = at + 1 THEN n % 256
        ELSE IF i = at + 2 THEN (n \div 256) % 256
        ELSE IF i = at + 3 THEN (n \div 65536) % 256
        ELSE IF i = at + 4 THEN (n \div 16777216) % 256
        ELSE buf[i]]

\* the u32 a structure in memory holds when its four bytes are b (in
\* address order): x86 is little-endian
U32OfBytes(b) == b[1] + 256 * b[2] + 65536 * b[3] + 16777216 * b[4]

(***************************************************************************)
(* MPEntryCode.                                                            *)
(***************************************************************************)
MPEntryCode ==
    {"Processor", "Bus", "IOAPIC", "IOInterruptAssignment",
     "LocalInterruptAssignment", "Unknown"}

\* MPEntryCode::from_u8
from_u8(num) ==
    CASE num = 0 -> "Processor"
      [] num = 1 -> "Bus"
      [] num = 2 -> "IOAPIC"
      [] num = 3 -> "IOInterruptAssignment"
      [] num = 4 -> "LocalInterruptAssignment"
      [] OTHER -> "Unknown"

\* MPEntryCode::length with the Processor arm returning the size of the
\* ProcessorEntry struct (12) in place of the record's length
length_ProcessorStructSize(self) ==
    CASE self = "Processor" -> [panic |-> FALSE, val |-> 12]
      [] self = "Bus" -> [panic |-> FALSE, val |-> 8]
      [] self = "IOAPIC" -> [panic |-> FALSE, val |-> 8]
      [] self = "IOInterruptAssignment" -> [panic |-> FALSE, val |-> 8]
      [] self = "LocalInterruptAssignment" -> [panic |-> FALSE, val |-> 8]
      [] self = "Unknown" -> [panic |-> TRUE, val |-> 0]

\* MPEntryCode::length with the Unknown arm guessing a length
length_UnknownGuessed(self) ==
    CASE self = "Processor" -> [panic |-> FALSE, val |-> 20]
      [] self = "Bus" -> [panic |-> FALSE, val |-> 8]
      [] self = "IOAPIC" -> [panic |-> FALSE, val |-> 8]
      [] self = "IOInterruptAssignment" -> [panic |-> FALSE, val |-> 8]
      [] self = "LocalInterruptAssignment" -> [panic |-> FALSE, val |-> 8]
      [] self = "Unknown" -> [panic |-> FALSE, val |-> 8]

\* MPEntryCode::length: the record's byte length, or the panic of the
\* Unknown arm (val is then not produced)
length(self) ==
    CASE self = "Processor" -> [panic |-> FALSE, val |-> 20]
      [] self = "Bus" -> [panic |-> FALSE, val |-> 8]
      [] self = "IOAPIC" -> [panic |-> FALSE, val |-> 8]
      [] self = "IOInterruptAssignment" -> [panic |-> FALSE, val |-> 8]
      [] self = "LocalInterruptAssignment" -> [panic |-> FALSE, val |-> 8]
      [] self = "Unknown" -> [panic |-> TRUE, val |-> 0]

(***************************************************************************)
(* MPConfigurationTableHeader and the table in memory.                     *)
(***************************************************************************)
\* the bytes of the header that precede the first entry: iter() adds 44
HeaderSize == 44

\* MPCONFIGURATIONTABLEHEADER_SIGNATURE, "PCMP"
MPCONFIGURATIONTABLEHEADER_SIGNATURE == <<80, 67, 77, 80>>

\* the struct MPConfigurationTableHeader; the fields the model varies are
\* the parameters, the others hold one value each
Header(sig, len, rev, sum, count) ==
    [signature |-> sig,
     base_table_length |-> len,
     spec_rev |-> rev,
     checksum |-> sum,
     oem_id |-> <<79, 69, 77, 32, 32, 32, 32, 32>>,
     product_id |-> <<80, 82, 79, 68, 32, 32, 32, 32, 32, 32, 32, 32>>,
     oem_table_pointer |-> 0,
     oem_table_size |-> 0,
     entry_count |-> count,
     local_apic_addr |-> 16777216,
     extended_table_length |-> 0,
     extended_table_checksum |-> 0]

\* the type bytes the firmware may put at the start of a record: the five
\* known codes and two unknown ones
TypeBytes == {0, 1, 2, 3, 4, 5, 255}

\* the entry streams the firmware lays out
Streams == UNION {[1..n -> TypeBytes] : n \in 0..MaxRecords}

\* the bytes a record of type byte t occupies in the table (MP
\* specification: a processor record is 20 bytes, every other record 8)
RecordLength(t) == IF t = 0 THEN 20 ELSE 8

\* the j-th byte after the type byte of the i-th record: stable contents
\* that hold known and unknown type codes alike
PayloadByte(i, j) == (i + j) % 7

\* the bytes of the i-th record
RecordBytes(ts, i) ==
    [j \in 1..RecordLength(ts[i]) |-> IF j = 1 THEN ts[i] ELSE PayloadByte(i, j - 1)]

RECURSIVE StreamBytes(_, _)
\* the bytes of records i.. of the stream, in address order
StreamBytes(ts, i) ==
    IF i > Len(ts) THEN <<>> ELSE RecordBytes(ts, i) \o StreamBytes(ts, i + 1)

\* the addresses the caller may hold the table at
Bases == {4096, 983040}

\* the first address of the table's extent that is past the header, and
\* the first address past the extent
ExtentLow == table_location + HeaderSize
ExtentHigh == table_location + hdr.base_table_length

InExtent(addr) == ExtentLow <= addr /\ addr < ExtentHigh

\* what memory past the table may hold
OutsideBytes == {0, 1, 9}

\* unsafe { *current_ptr }: inside the table the byte the firmware put
\* there; outside it the read is undefined: any byte, or a fault
Deref(addr) ==
    IF InExtent(addr)
    THEN {[fault |-> FALSE, val |-> mem[addr - ExtentLow + 1]]}
    ELSE {[fault |-> FALSE, val |-> b] : b \in OutsideBytes}
         \cup {[fault |-> TRUE, val |-> 0]}

(***************************************************************************)
(* EntryIterator.                                                          *)
(***************************************************************************)
\* MPConfigurationTableHeader::iter
iter(self, location) ==
    [table_location |-> location + HeaderSize,
     total_entries |-> self.entry_count,
     entries_sofar |-> 0,
     current_offset |-> 0]

\* the outcomes of one next() call
None == [kind |-> "None", code |-> "-"]
Some(code) == [kind |-> "Some", code |-> code]
Panic == [kind |-> "Panic", code |-> "-"]
Fault == [kind |-> "Fault", code |-> "-"]

\* current_addr of next()
current_addr(self) == self.table_location + self.current_offset

\* EntryIterator::next that does not stop at total_entries
next_NoExhaustion(self, byte) ==
    LET current_code == from_u8(byte)
        counted == [self EXCEPT !.entries_sofar = @ + 1]
        len == length(current_code)
    IN  IF len.panic
        THEN [self |-> counted, ret |-> Panic]
        ELSE [self |-> [counted EXCEPT !.current_offset = @ + len.val],
              ret |-> Some(current_code)]

\* EntryIterator::next, byte being *current_ptr (not read when the
\* iterator is exhausted): the iterator afterwards and what the call
\* returns.  entries_sofar is incremented before length() is called, so a
\* panic in length() leaves it incremented and current_offset as it was.
next(self, byte) ==
    IF self.entries_sofar >= self.total_entries
    THEN [self |-> self, ret |-> None]
    ELSE LET current_code == from_u8(byte)
             counted == [self EXCEPT !.entries_sofar = @ + 1]
             len == length(current_code)
         IN  IF len.panic
             THEN [self |-> counted, ret |-> Panic]
             ELSE [self |-> [counted EXCEPT !.current_offset = @ + len.val],
                   ret |-> Some(current_code)]

\* whether next() reads memory
next_reads(self) == ~(self.entries_sofar >= self.total_entries)

(***************************************************************************)
(* MPFloatingPointer and MPEntry: the structures the other specifications  *)
(* decode.                                                                 *)
(***************************************************************************)
\* the struct MPFloatingPointer
FloatingPointer(sig, ptr, len, rev, sum, info) ==
    [signature |-> sig,
     physical_address_pointer |-> ptr,
     length |-> len,
     spec_rev |-> rev,
     checksum |-> sum,
     mp_feature_info_bytes |-> info]

\* the struct MPEntry: the code and the bytes of the union MPPossibleEntries
Entry(code, bytes) == [code |-> code, entries |-> bytes]

\* what the variables a specification does not use hold
IdleFP == FloatingPointer(0, 0, 0, 0, 0, <<0, 0, 0, 0, 0>>)
IdleHdr == Header(0, 0, 0, 0, 0)
IdleEntry == Entry("Unknown", <<>>)
IdleIterator ==
    [table_location |-> 0, total_entries |-> 0, entries_sofar |-> 0,
     current_offset |-> 0]
NoRet == [op |-> "-", val |-> FALSE]

(***************************************************************************)
(* Spec: a caller builds the iterator over a table in memory and drives it.*)
(***************************************************************************)
Init ==
    /\ fp = IdleFP
    /\ entry = IdleEntry
    /\ ret = NoRet
    /\ table_location \in Bases
    /\ types \in Streams
    /\ mem = StreamBytes(types, 1)
    /\ \E count \in 0..MaxCount :
          hdr = Header(U32OfBytes(MPCONFIGURATIONTABLEHEADER_SIGNATURE),
                       HeaderSize + Len(mem), 4, 0, count)
    /\ it = IdleIterator
    /\ results = <<>>
    /\ reads = <<>>
    /\ pc = "start"

\* let it = header.iter(table_location)
IterCall ==
    /\ pc = "start"
    /\ it' = iter(hdr, table_location)
    /\ pc' = "iterating"
    /\ UNCHANGED <<fp, hdr, entry, table_location, types, mem, results, reads, ret>>

\* it.next(): one whole call, the read of *current_ptr included
NextCall ==
    /\ pc = "iterating"
    /\ Len(results) < MaxCalls
    /\ IF next_reads(it)
       THEN \E d \in Deref(current_addr(it)) :
               /\ reads' = Append(reads, current_addr(it))
               /\ IF d.fault
                  THEN /\ results' = Append(results, Fault)
                       /\ pc' = "fault"
                       /\ it' = it
                  ELSE LET r == next(it, d.val)
                       IN  /\ it' = r.self
                           /\ results' = Append(results, r.ret)
                           /\ pc' = pc
       ELSE LET r == next(it, 0)
            IN  /\ it' = r.self
                /\ results' = Append(results, r.ret)
                /\ reads' = reads
                /\ pc' = pc
    /\ UNCHANGED <<fp, hdr, entry, table_location, types, mem, ret>>

Next == IterCall \/ NextCall

Spec == Init /\ [][Next]_vars

(***************************************************************************)
(* MPFloatingPointer's checks.                                             *)
(***************************************************************************)
\* MPFLOATINGPOINTER_SIGNATURE, "_MP_"
MPFLOATINGPOINTER_SIGNATURE == <<95, 77, 80, 95>>

\* MPFloatingPointer::verify_checksum testing the whole low byte of the sum
MPFloatingPointer_verify_checksum_LowByte(self) ==
    LET buf0 == [i \in 1..16 |-> 0]
        buf1 == LittleEndian_write_u32(buf0, 0, self.signature)
        buf2 == LittleEndian_write_u32(buf1, 4, self.physical_address_pointer)
        checksum == SumBytes(buf2) + self.length + self.spec_rev
                    + self.checksum + SumBytes(self.mp_feature_info_bytes)
    IN  (checksum % 256) = 0

\* MPFloatingPointer::verify_checksum: checksum & 0x0f is checksum % 16,
\* the sum being a usize of at most 16 * 255
MPFloatingPointer_verify_checksum(self) ==
    LET buf0 == [i \in 1..16 |-> 0]
        buf1 == LittleEndian_write_u32(buf0, 0, self.signature)
        buf2 == LittleEndian_write_u32(buf1, 4, self.physical_address_pointer)
        checksum == SumBytes(buf2) + self.length + self.spec_rev
                    + self.checksum + SumBytes(self.mp_feature_info_bytes)
    IN  (checksum % 16) = 0

\* MPFloatingPointer::verify_signature
MPFloatingPointer_verify_signature(self) ==
    LET ascii == LittleEndian_write_u32([i \in 1..4 |-> 0], 0, self.signature)
    IN  ascii = MPFLOATINGPOINTER_SIGNATURE

\* MPFloatingPointer::is_valid
MPFloatingPointer_is_valid(self) ==
    MPFloatingPointer_verify_checksum(self) /\ MPFloatingPointer_verify_signature(self)

\* the signatures a candidate structure in low memory may carry: "_MP_",
\* "_MP_" byte-reversed, "PCMP" and zeroes
FPSignatures ==
    {U32OfBytes(MPFLOATINGPOINTER_SIGNATURE), U32OfBytes(<<95, 80, 77, 95>>),
     U32OfBytes(MPCONFIGURATIONTABLEHEADER_SIGNATURE), 0}

\* the floating pointer structures the model decodes: every checksum byte
FloatingPointers ==
    {FloatingPointer(sig, ptr, len, 4, sum, info) :
        sig \in FPSignatures, ptr \in {1048576, 989748}, len \in {1, 16},
        sum \in Byte, info \in {<<0, 0, 0, 0, 0>>, <<255, 128, 0, 0, 7>>}}

\* the bytes a signature byte is overwritten with (the u32 stays below 2^31)
CorruptBytes == {0, 1, 77, 80, 95, 96, 127}

\* self with byte i (1..4, in address order) of its signature set to v
WithSignatureByte(self, i, v) ==
    LET bytes == LittleEndian_write_u32([k \in 1..4 |-> 0], 0, self.signature)
    IN  [self EXCEPT !.signature = U32OfBytes([bytes EXCEPT ![i] = v])]

InitFP ==
    /\ fp \in FloatingPointers
    /\ hdr = IdleHdr
    /\ entry = IdleEntry
    /\ table_location = 0
    /\ types = <<>>
    /\ mem = <<>>
    /\ it = IdleIterator
    /\ results = <<>>
    /\ reads = <<>>
    /\ ret = NoRet
    /\ pc = "read"

\* fp.verify_checksum()
FPVerifyChecksum ==
    /\ pc \in {"read", "corrupted"}
    /\ ret' = [op |-> "verify_checksum", val |-> MPFloatingPointer_verify_checksum(fp)]
    /\ UNCHANGED <<fp, hdr, entry, table_location, types, mem, it, results, reads, pc>>

\* fp.verify_signature()
FPVerifySignature ==
    /\ pc \in {"read", "corrupted"}
    /\ ret' = [op |-> "verify_signature", val |-> MPFloatingPointer_verify_signature(fp)]
    /\ UNCHANGED <<fp, hdr, entry, table_location, types, mem, it, results, reads, pc>>

\* fp.is_valid()
FPIsValid ==
    /\ pc \in {"read", "corrupted"}
    /\ ret' = [op |-> "is_valid", val |-> MPFloatingPointer_is_valid(fp)]
    /\ UNCHANGED <<fp, hdr, entry, table_location, types, mem, it, results, reads, pc>>

\* the caller's memory changes: one byte of a correct signature is
\* overwritten with another value
FPCorruptSignature ==
    /\ pc = "read"
    /\ LittleEndian_write_u32([k \in 1..4 |-> 0], 0, fp.signature)
          = MPFLOATINGPOINTER_SIGNATURE
    /\ \E i \in 1..4 : \E v \in CorruptBytes :
          /\ v # MPFLOATINGPOINTER_SIGNATURE[i]
          /\ fp' = WithSignatureByte(fp, i, v)
    /\ ret' = NoRet
    /\ pc' = "corrupted"
    /\ UNCHANGED <<hdr, entry, table_location, types, mem, it, results, reads>>

NextFP == FPVerifyChecksum \/ FPVerifySignature \/ FPIsValid \/ FPCorruptSignature

SpecFP == InitFP /\ [][NextFP]_vars

(***************************************************************************)
(* MPConfigurationTableHeader's checks.                                    *)
(***************************************************************************)
\* MPConfigurationTableHeader::verify_checksum with the FIXME done over
\* the header's own bytes
MPConfigurationTableHeader_verify_checksum_Summed(self) ==
    LET word(n) == (n % 256) + ((n \div 256) % 256)
        dword(n) == word(n % 65536) + word(n \div 65536)
        sum == dword(self.signature) + word(self.base_table_length)
               + self.spec_rev + self.checksum + SumBytes(self.oem_id)
               + SumBytes(self.product_id) + dword(self.oem_table_pointer)
               + word(self.oem_table_size) + word(self.entry_count)
               + dword(self.local_apic_addr) + word(self.extended_table_length)
               + self.extended_table_checksum
    IN  sum % 256 = 0

\* MPConfigurationTableHeader::verify_checksum: the stub
MPConfigurationTableHeader_verify_checksum(self) == TRUE

\* MPConfigurationTableHeader::verify_signature
MPConfigurationTableHeader_verify_signature(self) ==
    LET ascii == LittleEndian_write_u32([i \in 1..4 |-> 0], 0, self.signature)
    IN  ascii = MPCONFIGURATIONTABLEHEADER_SIGNATURE

\* MPConfigurationTableHeader::is_valid
MPConfigurationTableHeader_is_valid(self) ==
    /\ MPConfigurationTableHeader_verify_checksum(self)
    /\ MPConfigurationTableHeader_verify_signature(self)

\* the signatures a header may carry: "PCMP", "PCMP" byte-reversed,
\* "PCMQ", "_MP_" and zeroes
HdrSignatures ==
    {U32OfBytes(MPCONFIGURATIONTABLEHEADER_SIGNATURE), U32OfBytes(<<80, 77, 67, 80>>),
     U32OfBytes(<<80, 67, 77, 81>>), U32OfBytes(MPFLOATINGPOINTER_SIGNATURE), 0}

\* the headers the model decodes
Headers ==
    {Header(sig, len, rev, sum, count) :
        sig \in HdrSignatures, len \in {0, 44, 52, 65535}, rev \in {1, 4},
        sum \in {0, 1, 37, 170, 255}, count \in {0, 1, 65535}}

InitHdr ==
    /\ fp = IdleFP
    /\ hdr \in Headers
    /\ entry = IdleEntry
    /\ table_location = 0
    /\ types = <<>>
    /\ mem = <<>>
    /\ it = IdleIterator
    /\ results = <<>>
    /\ reads = <<>>
    /\ ret = NoRet
    /\ pc = "read"

\* header.verify_checksum()
HdrVerifyChecksum ==
    /\ ret' = [op |-> "verify_checksum",
               val |-> MPConfigurationTableHeader_verify_checksum(hdr)]
    /\ UNCHANGED <<fp, hdr, entry, table_location, types, mem, it, results, reads, pc>>

\* header.verify_signature()
HdrVerifySignature ==
    /\ ret' = [op |-> "verify_signature",
               val |-> MPConfigurationTableHeader_verify_signature(hdr)]
    /\ UNCHANGED <<fp, hdr, entry, table_location, types, mem, it, results, reads, pc>>

\* header.is_valid()
HdrIsValid ==
    /\ ret' = [op |-> "is_valid", val |-> MPConfigurationTableHeader_is_valid(hdr)]
    /\ UNCHANGED <<fp, hdr, entry, table_location, types, mem, it, results, reads, pc>>

NextHdr == HdrVerifyChecksum \/ HdrVerifySignature \/ HdrIsValid

SpecHdr == InitHdr /\ [][NextHdr]_vars

(***************************************************************************)
(* MPEntry's accessors.  The union MPPossibleEntries is 12 bytes, the size *)
(* of its largest member (ProcessorEntry, packed); every other member is   *)
(* its first 8 bytes.  An accessor returns Option<record>: {} is None and  *)
(* {r} is Some(r).                                                         *)
(***************************************************************************)
\* the view of the union's bytes as a ProcessorEntry
ProcessorEntry(b) ==
    [entry_type |-> b[1], lapic_id |-> b[2], lapic_version |-> b[3],
     cpu_flags |-> b[4], cpu_signature |-> <<b[5], b[6]>>,
     unused |-> <<b[7], b[8]>>,
     feature_flags |-> U32OfBytes(<<b[9], b[10], b[11], b[12]>>)]

\* the view of the union's bytes as a BusEntry
BusEntry(b) ==
    [entry_type |-> b[1], bus_id |-> b[2],
     bus_type_string |-> <<b[3], b[4], b[5], b[6], b[7], b[8]>>]

\* the view of the union's bytes as an IOAPICEntry
IOAPICEntry(b) ==
    [entry_type |-> b[1], ioapic_id |-> b[2], ioapic_version |-> b[3],
     ioapic_flags |-> b[4],
     ioapic_address |-> U32OfBytes(<<b[5], b[6], b[7], b[8]>>)]

\* the view of the union's bytes as an IOInterruptAssignmentEntry
IOInterruptAssignmentEntry(b) ==
    [entry_type |-> b[1], interrupt_type |-> b[2], interrupt_mode |-> b[3],
     unused |-> b[4], source_bus_id |-> b[5], source_bus_irq |-> b[6],
     dest_ioapic_id |-> b[7], dest_ioapic_int |-> b[8]]

\* the view of the union's bytes as a LocalInterruptAssignmentEntry
LocalInterruptAssignmentEntry(b) ==
    [entry_type |-> b[1], interrupt_type |-> b[2], interrupt_mode |-> b[3],
     unused |-> b[4], source_bus_id |-> b[5], source_bus_irq |-> b[6],
     dest_ioapic_id |-> b[7], dest_ioapic_int |-> b[8]]

\* MPEntry::get_processor_entry
get_processor_entry(self) ==
    IF self.code = "Processor" THEN {ProcessorEntry(self.entries)} ELSE {}

\* MPEntry::get_bus_entry testing the code of the accessor above it
get_bus_entry_WrongCode(self) ==
    IF self.code = "Processor" THEN {BusEntry(self.entries)} ELSE {}

\* MPEntry::get_bus_entry
get_bus_entry(self) ==
    IF self.code = "Bus" THEN {BusEntry(self.entries)} ELSE {}

\* MPEntry::get_ioapic_entry
get_ioapic_entry(self) ==
    IF self.code = "IOAPIC" THEN {IOAPICEntry(self.entries)} ELSE {}

\* MPEntry::get_io_interrupt_assignment_entry
get_io_interrupt_assignment_entry(self) ==
    IF self.code = "IOInterruptAssignment"
    THEN {IOInterruptAssignmentEntry(self.entries)} ELSE {}

\* MPEntry::get_local_interrupt_assignment_entry
get_local_interrupt_assignment_entry(self) ==
    IF self.code = "LocalInterruptAssignment"
    THEN {LocalInterruptAssignmentEntry(self.entries)} ELSE {}

\* the contents of the union's 12 bytes: a type byte and three payloads
UnionBytes ==
    {<<t>> \o pl : t \in {0, 1, 2, 3, 4, 9},
                   pl \in {<<1, 2, 3, 4, 5, 6, 7, 8, 9, 10, 11>>,
                           <<255, 0, 128, 64, 32, 16, 8, 4, 2, 1, 127>>,
                           <<0, 0, 0, 0, 0, 0, 0, 0, 0, 0, 0>>}}

\* the entries the accessors are called on: any code over any contents
Entries == {Entry(c, b) : c \in MPEntryCode, b \in UnionBytes}

\* the accessors' names
Accessors ==
    {"get_processor_entry", "get_bus_entry", "get_ioapic_entry",
     "get_io_interrupt_assignment_entry", "get_local_interrupt_assignment_entry"}

\* what accessor a returns for self
CallAccessor(a, self) ==
    CASE a = "get_processor_entry" -> get_processor_entry(self)
      [] a = "get_bus_entry" -> get_bus_entry(self)
      [] a = "get_ioapic_entry" -> get_ioapic_entry(self)
      [] a = "get_io_interrupt_assignment_entry" ->
            get_io_interrupt_assignment_entry(self)
      [] a = "get_local_interrupt_assignment_entry" ->
            get_local_interrupt_assignment_entry(self)

\* in SpecEntry ret.val maps each accessor called so far to what it returned
InitEntry ==
    /\ fp = IdleFP
    /\ hdr = IdleHdr
    /\ entry \in Entries
    /\ table_location = 0
    /\ types = <<>>
    /\ mem = <<>>
    /\ it = IdleIterator
    /\ results = <<>>
    /\ reads = <<>>
    /\ ret = [op |-> "accessors", val |-> [a \in {} |-> {}]]
    /\ pc = "read"

\* entry.<a>() for one of the five accessors
AccessorCall ==
    /\ \E a \in Accessors \ DOMAIN ret.val :
          ret' = [ret EXCEPT !.val =
                     [x \in DOMAIN ret.val \cup {a} |->
                         IF x = a THEN CallAccessor(a, entry) ELSE ret.val[x]]]
    /\ UNCHANGED <<fp, hdr, entry, table_location, types, mem, it, results, reads, pc>>

NextEntry == AccessorCall

SpecEntry == InitEntry /\ [][NextEntry]_vars

(***************************************************************************)
(* What the claims about the iterator speak of.                            *)
(***************************************************************************)
\* the classification the MP specification gives a known type byte
KindOfType(t) ==
    <<"Processor", "Bus", "IOAPIC", "IOInterruptAssignment",
      "LocalInterruptAssignment">>[t + 1]

KnownType(t) == t \in 0..4

\* the fixed length of an entry of a known kind
LengthOfKind(k) == IF k = "Processor" THEN 20 ELSE 8

\* the entries the next() calls have yielded so far, in order
Yielded == SelectSeq(results, LAMBDA r : r.kind = "Some")

\* the next() calls so far that ended in the panic of length()
Panicked == SelectSeq(results, LAMBDA r : r.kind = "Panic")

RECURSIVE SumLengths(_)
SumLengths(ys) ==
    IF ys = <<>> THEN 0 ELSE LengthOfKind(Head(ys).code) + SumLengths(Tail(ys))

\* the stream starts with n records of known type
KnownPrefix(n) == Len(types) >= n /\ \A k \in 1..n : KnownType(types[k])

\* C1's case: entry_count = N and the first N records are of known type
C1_Case == pc # "start" /\ KnownPrefix(hdr.entry_count)

\* C1: with entry_count = N over a stream whose first N records are of
\* known type, the k-th next() call (k <= N) yields the classification of
\* the k-th record's type byte and every call after the N-th returns None.
C1_YieldsTheFirstN ==
    C1_Case =>
        \A k \in 1..Len(results) :
            IF k <= hdr.entry_count
            THEN results[k] = Some(KindOfType(types[k]))
            ELSE results[k] = None

\* C1's witness: three records, a 20-byte Processor record among them and
\* a Bus record after it, all yielded, and the fourth call returned None
C1_Witness ==
    /\ C1_Case
    /\ hdr.entry_count = 3
    /\ types[1] = 0 /\ types[2] = 1 /\ types[3] = 4
    /\ Len(results) = 4
    /\ results[4] = None
    /\ Len(Yielded) = 3

\* C2's case: entry_count = N + 1, N records of known type and then a
\* record of unknown type
C2_Case(n) ==
    /\ pc # "start"
    /\ hdr.entry_count = n + 1
    /\ KnownPrefix(n)
    /\ Len(types) >= n + 1
    /\ ~KnownType(types[n + 1])

\* C2: in that case the first N calls yield the N classifications, the
\* (N+1)th call ends in the panic and no later call yields an entry; no
\* call ever yields Unknown; and a call that panicked on a byte of the
\* table is followed by no call that yields an entry.
C2_UnknownIsFatal ==
    /\ \A n \in 0..MaxCount :
          C2_Case(n) =>
              \A k \in 1..Len(results) :
                  /\ k <= n => results[k] = Some(KindOfType(types[k]))
                  /\ k = n + 1 => results[k] = Panic
                  /\ k > n + 1 => results[k].kind # "Some"
    /\ \A k \in 1..Len(results) : results[k] # Some("Unknown")
    /\ \A k \in 1..Len(results) :
          (results[k] = Panic /\ InExtent(reads[k])) =>
              \A j \in (k + 1)..Len(results) : results[j].kind # "Some"

\* C2's witness: two known records, then an unknown one, the third call
\* panicked and a fourth call was made
C2_Witness ==
    /\ C2_Case(2)
    /\ Len(results) = 4
    /\ results[3] = Panic
    /\ Len(Yielded) = 2

\* C8: every address a next() call dereferences lies in the table's
\* extent, at or after table base + 44 and before table base +
\* base_table_length (a call that would read elsewhere fails instead).
C8_ReadsInsideExtent ==
    \A k \in 1..Len(reads) : InExtent(reads[k])

\* C9: iter(base) gives read base = base + 44, target count =
\* entry_count, and from then on the offset is the sum of the lengths of
\* the entries yielded so far and consumed is the number of entries
\* yielded.  Stated of the runs whose reads all lie inside the table, so
\* that no read of foreign memory takes part in a violation.
C9_OffsetAndConsumedTrackYielded ==
    (pc # "start" /\ \A k \in 1..Len(reads) : InExtent(reads[k])) =>
        /\ it.table_location = table_location + 44
        /\ it.total_entries = hdr.entry_count
        /\ it.current_offset = SumLengths(Yielded)
        /\ it.entries_sofar = Len(Yielded)

\* C10: consumed never exceeds the target count; a next() call made when
\* consumed equals the target count returns None, reads no memory and
\* leaves the iterator as it was; with entry_count = 0 no call reads
\* memory and every call returns None.
C10_ExhaustionIsTerminal ==
    /\ [](pc # "start" => it.entries_sofar <= it.total_entries)
    /\ []((pc # "start" /\ hdr.entry_count = 0) =>
            (reads = <<>> /\ \A k \in 1..Len(results) : results[k] = None))
    /\ [][(pc = "iterating" /\ it.entries_sofar = it.total_entries
             /\ results' # results) =>
            (it' = it /\ reads' = reads /\ results' = Append(results, None))]_vars

\* C10's witness: an iterator that yielded its two entries and then
\* returned None twice
C10_Witness ==
    /\ pc = "iterating"
    /\ it.total_entries = 2
    /\ it.entries_sofar = it.total_entries
    /\ Len(results) = 4
    /\ results[3] = None /\ results[4] = None

(***************************************************************************)
(* What the claims about the floating pointer speak of.                    *)
(***************************************************************************)
\* the four bytes of a 32-bit field in address order, least significant
\* first
FieldBytes(n) ==
    <<n % 256, (n \div 256) % 256, (n \div 65536) % 256, (n \div 16777216) % 256>>

\* the unsigned sum of the 16 bytes of the floating pointer structure
FPByteSum(self) ==
    LET s == FieldBytes(self.signature)
        p == FieldBytes(self.physical_address_pointer)
        f == self.mp_feature_info_bytes
    IN  s[1] + s[2] + s[3] + s[4] + p[1] + p[2] + p[3] + p[4]
        + self.length + self.spec_rev + self.checksum
        + f[1] + f[2] + f[3] + f[4] + f[5]

C4_ValidOnlyIfSumZeroMod256 ==
    (ret.op = "verify_checksum" /\ ret.val) => FPByteSum(fp) % 256 = 0

\* C5: verify_signature returns true iff the signature bytes are 5F 4D 50
\* 5F in address order; after one byte of a correct signature has been
\* changed, verify_signature and is_valid return false.
C5_SignatureIsMP ==
    /\ ret.op = "verify_signature" =>
          (ret.val <=> (FieldBytes(fp.signature) = <<95, 77, 80, 95>>))
    /\ (pc = "corrupted" /\ ret.op \in {"verify_signature", "is_valid"}) =>
          ~ret.val

\* C5's witness: is_valid returned false for a structure that differs
\* from "_MP_" in its third signature byte alone and whose checksum passes
C5_Witness ==
    /\ pc = "corrupted"
    /\ ret.op = "is_valid"
    /\ ~ret.val
    /\ FieldBytes(fp.signature) = <<95, 77, 96, 95>>
    /\ FPByteSum(fp) % 16 = 0

(***************************************************************************)
(* What the claims about the header and the entries speak of.              *)
(***************************************************************************)
\* C6: the header's verify_checksum returns true whatever the header
\* holds, and is_valid returns true iff the signature bytes are 50 43 4D
\* 50 in address order.
C6_HeaderValidIffPCMP ==
    /\ ret.op = "verify_checksum" => ret.val
    /\ ret.op = "is_valid" =>
          (ret.val <=> (FieldBytes(hdr.signature) = <<80, 67, 77, 80>>))

\* C6's witness: is_valid returned true for a "PCMP" header whose checksum
\* byte is 37, whose length is 0 and whose entry count is 65535
C6_Witness ==
    /\ ret.op = "is_valid"
    /\ ret.val
    /\ hdr.checksum = 37
    /\ hdr.base_table_length = 0
    /\ hdr.entry_count = 65535

\* the code each accessor answers to
CodeOfAccessor(a) ==
    CASE a = "get_processor_entry" -> "Processor"
      [] a = "get_bus_entry" -> "Bus"
      [] a = "get_ioapic_entry" -> "IOAPIC"
      [] a = "get_io_interrupt_assignment_entry" -> "IOInterruptAssignment"
      [] a = "get_local_interrupt_assignment_entry" -> "LocalInterruptAssignment"

\* the bytes of a record an accessor returned, field by field in the
\* order of its struct
BytesOfRecord(a, r) ==
    CASE a = "get_processor_entry" ->
            <<r.entry_type, r.lapic_id, r.lapic_version, r.cpu_flags>>
            \o r.cpu_signature \o r.unused \o FieldBytes(r.feature_flags)
      [] a = "get_bus_entry" -> <<r.entry_type, r.bus_id>> \o r.bus_type_string
      [] a = "get_ioapic_entry" ->
            <<r.entry_type, r.ioapic_id, r.ioapic_version, r.ioapic_flags>>
            \o FieldBytes(r.ioapic_address)
      [] OTHER ->
            <<r.entry_type, r.interrupt_type, r.interrupt_mode, r.unused,
              r.source_bus_id, r.source_bus_irq, r.dest_ioapic_id,
              r.dest_ioapic_int>>

\* the bytes of the entry a record of accessor a covers
SizeOfRecord(a) == IF a = "get_processor_entry" THEN 12 ELSE 8

\* C7: an accessor returns a record iff the entry's code is its kind, the
\* record holding exactly the entry's bytes; so at most one of the five
\* returns a record, and none does for an entry of code Unknown.
C7_AccessorsMatchCode ==
    ret.op = "accessors" =>
        /\ \A a \in DOMAIN ret.val :
              /\ (ret.val[a] # {}) <=> (entry.code = CodeOfAccessor(a))
              /\ \A r \in ret.val[a] :
                    BytesOfRecord(a, r) = SubSeq(entry.entries, 1, SizeOfRecord(a))
              /\ Cardinality(ret.val[a]) <= 1
        /\ Cardinality({a \in DOMAIN ret.val : ret.val[a] # {}}) <= 1
        /\ entry.code = "Unknown" => \A a \in DOMAIN ret.val : ret.val[a] = {}

\* C7's witness: all five accessors were called on a Bus entry, and
\* get_bus_entry alone returned a record
C7_Witness ==
    /\ ret.op = "accessors"
    /\ DOMAIN ret.val = Accessors
    /\ entry.code = "Bus"
    /\ entry.entries[2] = 255
    /\ ret.val["get_bus_entry"] # {}
    /\ ret.val["get_processor_entry"] = {}

====
